---- MODULE Spec2Model ----
(***************************************************************************)
(* Referral System API (src/main.py): two tables, users and referrals,     *)
(* behind six FastAPI handlers, each running in its own SQLAlchemy session *)
(* obtained from get_db.                                                   *)
(*                                                                         *)
(* A request is a small process: Start acquires the session, each database *)
(* round trip of the handler (query, commit, refresh) is one atomic step,  *)
(* the handler ends by producing a response, and CloseSession is get_db's  *)
(* finally block.  Several worker processes may serve requests against the *)
(* same database, so the steps of two requests interleave.                 *)
(*                                                                         *)
(* Left out: Referral.date (set by the database at insert, read by no      *)
(* handler logic) and the unused second schema in src/models.py.           *)
(***************************************************************************)
EXTENDS Integers, Sequences, FiniteSets, TLC

\* ---------------------------------------------------------------- bounds
MaxRequests == 3            \* requests started in one behaviour
Reqs        == {1, 2}       \* requests that may be in flight together
TgIds       == {"111", "222"}
Usernames   == {"alice", "bob"}

\* ------------------------------------------------------- program constants
BaseUrl        == "https://t.me/tma123_bot?startapp="
ReferralPoints == 100
NotFound       == 404       \* HTTPException(status_code=404)
Conflict       == 400       \* HTTPException(status_code=400)
Ok             == 200       \* a route declared without status_code answers 200
ServerError    == 500       \* an exception no handler catches answers 500

VARIABLES
    users,        \* table users: sequence of rows in insertion order
    referrals,    \* table referrals: sequence of rows in insertion order
    fk_enforced,  \* whether the backend behind DATABASE_URL enforces FOREIGN KEY
    pc,           \* position of each request
    req,          \* the request being served: operation and arguments
    session,      \* state of the request's database session
    pending,      \* objects added to the session and not yet flushed
    local,        \* handler local: friend_ids, or id of the row just inserted
    resp,         \* response produced by the handler
    started       \* number of requests started so far

vars == <<users, referrals, fk_enforced, pc, req, session, pending, local, resp, started>>

NoReq  == [op |-> "none", tg_id |-> "", username |-> "", friend_tg_id |-> ""]
NoResp == [status |-> 0, detail |-> "", body |-> <<>>]

\* ------------------------------------------------------------- pure parts

\* the link built with the wrong query parameter
RefLinkStart(tg_id) == "https://t.me/tma123_bot?start=" \o tg_id

\* f"https://t.me/tma123_bot?startapp={tg_id}"
RefLink(tg_id) == BaseUrl \o tg_id

\* User(tg_id=..., username=..., ref_link=...) as inserted: id is auto-assigned
NewUser(id, tg_id, username) ==
    [id |-> id, tg_id |-> tg_id, username |-> username, ref_link |-> RefLink(tg_id)]

\* Referral(user_tg_id=..., friend_tg_id=..., points=100)
NewReferral(id, user_tg_id, friend_tg_id) ==
    [id |-> id, user_tg_id |-> user_tg_id, friend_tg_id |-> friend_tg_id,
     points |-> ReferralPoints]

\* A SELECT without order_by returns its rows in an order the backend
\* chooses (table order, index order, ...): every ordering of the rows
Orderings(rows) ==
    {[i \in 1..Len(rows) |-> rows[p[i]]] : p \in Permutations(1..Len(rows))}

\* the query with its filter dropped
UsersUnfiltered(tg_id) == users

\* db.query(User).filter(User.tg_id == tg_id): the matching rows; tg_id is
\* unique, so there is at most one and .first() has no order to choose
UsersByTgId(tg_id) == SelectSeq(users, LAMBDA u : u.tg_id = tg_id)

\* the filter on the wrong column
ReferralsToFriend(tg_id) ==
    Orderings(SelectSeq(referrals, LAMBDA x : x.friend_tg_id = tg_id))

\* db.query(Referral).filter(Referral.user_tg_id == tg_id).all(): the lists
\* the query may return, no order being asked for
ReferralsOf(tg_id) ==
    Orderings(SelectSeq(referrals, LAMBDA x : x.user_tg_id = tg_id))

\* the duplicate check ignoring the direction of the pair
ReferralsOfPairEitherWay(a, b) ==
    SelectSeq(referrals, LAMBDA x : (x.user_tg_id = a /\ x.friend_tg_id = b)
                                    \/ (x.user_tg_id = b /\ x.friend_tg_id = a))

\* db.query(Referral).filter(user_tg_id == a, friend_tg_id == b): the
\* matching rows; the handler only asks whether .first() finds one
ReferralsOfPair(a, b) ==
    SelectSeq(referrals, LAMBDA x : x.user_tg_id = a /\ x.friend_tg_id = b)

\* [referral.friend_tg_id for referral in referrals]
FriendIds(rows) == [i \in 1..Len(rows) |-> rows[i].friend_tg_id]

SeqRange(s) == {s[i] : i \in 1..Len(s)}

\* db.query(User).filter(User.tg_id.in_(friend_ids)).all(): the lists the
\* query may return, no order being asked for
UsersIn(friend_ids) ==
    Orderings(SelectSeq(users, LAMBDA u : u.tg_id \in SeqRange(friend_ids)))

\* sum(referral.points for referral in referrals)
RECURSIVE SumPoints(_)
SumPoints(rows) ==
    IF rows = <<>> THEN 0 ELSE Head(rows).points + SumPoints(Tail(rows))

\* response_model=UserResponse: id is not part of the response
UserResponse(u) == [tg_id |-> u.tg_id, username |-> u.username, ref_link |-> u.ref_link]

\* response_model=ReferralResponse (date left out, see the header)
ReferralResponse(x) ==
    [user_tg_id |-> x.user_tg_id, friend_tg_id |-> x.friend_tg_id, points |-> x.points]

Response(status, detail, body) == [status |-> status, detail |-> detail, body |-> body]

\* the users table without its unique constraints
NoUniqueViolation(row) == FALSE

\* unique=True on users.tg_id and users.ref_link
UniqueViolation(row) ==
    \E i \in 1..Len(users) :
        users[i].tg_id = row.tg_id \/ users[i].ref_link = row.ref_link

\* ForeignKey("users.tg_id") on both columns, where the backend enforces it
ForeignKeyViolation(row) ==
    /\ fk_enforced
    /\ \/ UsersByTgId(row.user_tg_id) = <<>>
       \/ UsersByTgId(row.friend_tg_id) = <<>>

\* --------------------------------------------------------------- requests

Requests ==
         [op : {"create_user"}, tg_id : TgIds, username : Usernames, friend_tg_id : {""}]
    \cup [op : {"get_user", "get_user_friends", "get_referral_link", "get_total_points"},
          tg_id : TgIds, username : {""}, friend_tg_id : {""}]
    \cup [op : {"create_referral"}, tg_id : TgIds, username : {""}, friend_tg_id : TgIds]

Init ==
    /\ users = <<>>
    /\ referrals = <<>>
    /\ fk_enforced \in BOOLEAN
    /\ pc = [r \in Reqs |-> "idle"]
    /\ req = [r \in Reqs |-> NoReq]
    /\ session = [r \in Reqs |-> "closed"]
    /\ pending = [r \in Reqs |-> <<>>]
    /\ local = [r \in Reqs |-> <<>>]
    /\ resp = [r \in Reqs |-> NoResp]
    /\ started = 0

\* get_db up to the yield: db = SessionLocal(); the handler then runs
Start(r, q) ==
    /\ pc[r] = "idle"
    /\ started < MaxRequests
    /\ started' = started + 1
    /\ req' = [req EXCEPT ![r] = q]
    /\ session' = [session EXCEPT ![r] = "open"]
    /\ pc' = [pc EXCEPT ![r] = "query"]
    /\ UNCHANGED <<users, referrals, fk_enforced, pending, local, resp>>

\* the handler returns or raises: nothing is left but get_db's finally block
Finish(r, response) ==
    /\ resp' = [resp EXCEPT ![r] = response]
    /\ pc' = [pc EXCEPT ![r] = "close"]

\* get_or_create_user, lines 86-90: look the user up, add a new one if absent
CreateUserQuery(r) ==
    /\ pc[r] = "query" /\ req[r].op = "create_user"
    /\ LET found == UsersByTgId(req[r].tg_id) IN
       IF found # <<>>
       THEN /\ Finish(r, Response(Ok, "", UserResponse(Head(found))))
            /\ UNCHANGED pending
       ELSE /\ pending' = [pending EXCEPT ![r] =
                              <<NewUser(0, req[r].tg_id, req[r].username)>>]
            /\ pc' = [pc EXCEPT ![r] = "commit"]
            /\ UNCHANGED resp
    /\ UNCHANGED <<users, referrals, fk_enforced, req, session, local, started>>

\* db.commit() in get_or_create_user: INSERT and COMMIT, or IntegrityError;
\* the failed flush rolls the session back, which expunges the added object
CreateUserCommit(r) ==
    /\ pc[r] = "commit" /\ req[r].op = "create_user"
    /\ LET row == Head(pending[r]) IN
       IF UniqueViolation(row)
       THEN /\ Finish(r, Response(ServerError, "IntegrityError", <<>>))
            /\ pending' = [pending EXCEPT ![r] = <<>>]
            /\ UNCHANGED <<users, local>>
       ELSE /\ users' = Append(users, [row EXCEPT !.id = Len(users) + 1])
            /\ pending' = [pending EXCEPT ![r] = <<>>]
            /\ local' = [local EXCEPT ![r] = <<Len(users) + 1>>]
            /\ pc' = [pc EXCEPT ![r] = "refresh"]
            /\ UNCHANGED resp
    /\ UNCHANGED <<referrals, fk_enforced, req, session, started>>

\* db.refresh(user); return user
CreateUserRefresh(r) ==
    /\ pc[r] = "refresh" /\ req[r].op = "create_user"
    /\ Finish(r, Response(Ok, "", UserResponse(users[local[r][1]])))
    /\ UNCHANGED <<users, referrals, fk_enforced, req, session, pending, local, started>>

\* get_user
GetUser(r) ==
    /\ pc[r] = "query" /\ req[r].op = "get_user"
    /\ LET found == UsersByTgId(req[r].tg_id) IN
       IF found = <<>>
       THEN Finish(r, Response(NotFound, "User not found", <<>>))
       ELSE Finish(r, Response(Ok, "", UserResponse(Head(found))))
    /\ UNCHANGED <<users, referrals, fk_enforced, req, session, pending, local, started>>

\* get_referral_link
GetReferralLink(r) ==
    /\ pc[r] = "query" /\ req[r].op = "get_referral_link"
    /\ LET found == UsersByTgId(req[r].tg_id) IN
       IF found = <<>>
       THEN Finish(r, Response(NotFound, "User not found", <<>>))
       ELSE Finish(r, Response(Ok, "", [referral_link |-> Head(found).ref_link]))
    /\ UNCHANGED <<users, referrals, fk_enforced, req, session, pending, local, started>>

\* get_user_friends, lines 128-129: the referrals of tg_id and their friend ids
GetUserFriendsReferrals(r) ==
    /\ pc[r] = "query" /\ req[r].op = "get_user_friends"
    /\ \E rows \in ReferralsOf(req[r].tg_id) :
          local' = [local EXCEPT ![r] = FriendIds(rows)]
    /\ pc' = [pc EXCEPT ![r] = "friends"]
    /\ UNCHANGED <<users, referrals, fk_enforced, req, session, pending, resp, started>>

\* get_user_friends, lines 130-131: the users whose tg_id is among friend_ids
GetUserFriendsUsers(r) ==
    /\ pc[r] = "friends" /\ req[r].op = "get_user_friends"
    /\ \E friends \in UsersIn(local[r]) :
       Finish(r, Response(Ok, "", [i \in 1..Len(friends) |-> UserResponse(friends[i])]))
    /\ UNCHANGED <<users, referrals, fk_enforced, req, session, pending, local, started>>

\* create_referral, lines 142-155: duplicate check, then add the new row
CreateReferralQuery(r) ==
    /\ pc[r] = "query" /\ req[r].op = "create_referral"
    /\ IF ReferralsOfPair(req[r].tg_id, req[r].friend_tg_id) # <<>>
       THEN /\ Finish(r, Response(Conflict, "Referral already exists", <<>>))
            /\ UNCHANGED pending
       ELSE /\ pending' = [pending EXCEPT ![r] =
                              <<NewReferral(0, req[r].tg_id, req[r].friend_tg_id)>>]
            /\ pc' = [pc EXCEPT ![r] = "commit"]
            /\ UNCHANGED resp
    /\ UNCHANGED <<users, referrals, fk_enforced, req, session, local, started>>

\* db.commit() in create_referral: INSERT and COMMIT, or IntegrityError;
\* the failed flush rolls the session back, which expunges the added object
CreateReferralCommit(r) ==
    /\ pc[r] = "commit" /\ req[r].op = "create_referral"
    /\ LET row == Head(pending[r]) IN
       IF ForeignKeyViolation(row)
       THEN /\ Finish(r, Response(ServerError, "IntegrityError", <<>>))
            /\ pending' = [pending EXCEPT ![r] = <<>>]
            /\ UNCHANGED <<referrals, local>>
       ELSE /\ referrals' = Append(referrals, [row EXCEPT !.id = Len(referrals) + 1])
            /\ pending' = [pending EXCEPT ![r] = <<>>]
            /\ local' = [local EXCEPT ![r] = <<Len(referrals) + 1>>]
            /\ pc' = [pc EXCEPT ![r] = "refresh"]
            /\ UNCHANGED resp
    /\ UNCHANGED <<users, fk_enforced, req, session, started>>

\* db.refresh(new_referral); return new_referral
CreateReferralRefresh(r) ==
    /\ pc[r] = "refresh" /\ req[r].op = "create_referral"
    /\ Finish(r, Response(Ok, "", ReferralResponse(referrals[local[r][1]])))
    /\ UNCHANGED <<users, referrals, fk_enforced, req, session, pending, local, started>>

\* get_total_points
GetTotalPoints(r) ==
    /\ pc[r] = "query" /\ req[r].op = "get_total_points"
    /\ \E rows \in ReferralsOf(req[r].tg_id) :
          Finish(r, Response(Ok, "", [total_points |-> SumPoints(rows)]))
    /\ UNCHANGED <<users, referrals, fk_enforced, req, session, pending, local, started>>

\* a database round trip fails (storage unavailable): the exception is not
\* handled anywhere and the request ends as a server error; a commit that
\* fails rolls the session back, which expunges the object it had added
StorageFault(r) ==
    /\ pc[r] \in {"query", "friends", "commit", "refresh"}
    /\ Finish(r, Response(ServerError, "OperationalError", <<>>))
    /\ pending' = [pending EXCEPT ![r] = <<>>]
    /\ UNCHANGED <<users, referrals, fk_enforced, req, session, local, started>>

\* get_db without its try/finally: an exception raised in the handler skips db.close()
CloseSessionNoFinally(r) ==
    /\ pc[r] = "close"
    /\ session' = [session EXCEPT ![r] = IF resp[r].status = Ok THEN "closed" ELSE "open"]
    /\ pending' = [pending EXCEPT ![r] = IF resp[r].status = Ok THEN <<>> ELSE pending[r]]
    /\ local' = [local EXCEPT ![r] = <<>>]
    /\ pc' = [pc EXCEPT ![r] = "idle"]
    /\ req' = [req EXCEPT ![r] = NoReq]
    /\ resp' = [resp EXCEPT ![r] = NoResp]
    /\ UNCHANGED <<users, referrals, fk_enforced, started>>

\* get_db's finally: db.close() rolls back whatever was not committed; the
\* response has been handed over and the request is over
CloseSession(r) ==
    /\ pc[r] = "close"
    /\ session' = [session EXCEPT ![r] = "closed"]
    /\ pending' = [pending EXCEPT ![r] = <<>>]
    /\ local' = [local EXCEPT ![r] = <<>>]
    /\ pc' = [pc EXCEPT ![r] = "idle"]
    /\ req' = [req EXCEPT ![r] = NoReq]
    /\ resp' = [resp EXCEPT ![r] = NoResp]
    /\ UNCHANGED <<users, referrals, fk_enforced, started>>

\* every step of a request after its start
Step(r) ==
    \/ CreateUserQuery(r)
    \/ CreateUserCommit(r)
    \/ CreateUserRefresh(r)
    \/ GetUser(r)
    \/ GetReferralLink(r)
    \/ GetUserFriendsReferrals(r)
    \/ GetUserFriendsUsers(r)
    \/ CreateReferralQuery(r)
    \/ CreateReferralCommit(r)
    \/ CreateReferralRefresh(r)
    \/ GetTotalPoints(r)
    \/ StorageFault(r)
    \/ CloseSession(r)

Next ==
    \E r \in Reqs :
        \/ \E q \in Requests : Start(r, q)
        \/ CreateUserQuery(r)
        \/ CreateUserCommit(r)
        \/ CreateUserRefresh(r)
        \/ GetUser(r)
        \/ GetReferralLink(r)
        \/ GetUserFriendsReferrals(r)
        \/ GetUserFriendsUsers(r)
        \/ CreateReferralQuery(r)
        \/ CreateReferralCommit(r)
        \/ CreateReferralRefresh(r)
        \/ GetTotalPoints(r)
        \/ StorageFault(r)
        \/ CloseSession(r)

Spec == Init /\ [][Next]_vars

\* A started handler runs to its end: every step is a blocking call that
\* returns or raises, and the framework then resumes get_db.
FairSpec == Spec /\ \A r \in Reqs : WF_vars(Step(r))

\* ----------------------------------------------------------------- claims

\* request r took a step: every action moves the pc of its request
Acted(r) == pc'[r] # pc[r]

\* request r is at its end with a response that is not a storage fault
Answered(r, op) ==
    /\ pc[r] = "close"
    /\ req[r].op = op
    /\ resp[r].detail # "OperationalError"

\* request r leaves pc `from` with an answer that is not a storage fault
Answers(r, op, from) ==
    /\ pc[r] = from
    /\ req[r].op = op
    /\ pc'[r] = "close"
    /\ resp'[r].detail # "OperationalError"

UserRowsOf(tg_id) == {i \in 1..Len(users) : users[i].tg_id = tg_id}
ReferralRowsOf(tg_id) == {i \in 1..Len(referrals) : referrals[i].user_tg_id = tg_id}
ReferralRowsOfPair(a, b) ==
    {i \in 1..Len(referrals) :
        referrals[i].user_tg_id = a /\ referrals[i].friend_tg_id = b}

\* C1: the referrals table never holds two rows with the same ordered pair
\* (user_tg_id, friend_tg_id), whatever the interleaving of create_referral.
C1_OneReferralPerPair ==
    \A a \in TgIds, b \in TgIds : Cardinality(ReferralRowsOfPair(a, b)) <= 1

\* C2: the users table never holds two rows with the same tg_id, rows are
\* never removed or changed, and when a create_user request ends successfully
\* the table holds exactly one row with its tg_id.
C2_OneUserPerTgId ==
    [][ /\ \A t \in TgIds : Cardinality({i \in 1..Len(users') : users'[i].tg_id = t}) <= 1
        /\ Len(users') >= Len(users)
        /\ \A i \in 1..Len(users) : users'[i] = users[i]
        /\ \A r \in Reqs :
              (pc'[r] = "close" /\ req'[r].op = "create_user" /\ resp'[r].status = Ok)
              => Cardinality({i \in 1..Len(users') : users'[i].tg_id = req'[r].tg_id}) = 1
      ]_vars

\* C2 witness: two create_user requests for one tg_id raced; one row is stored
\* and the loser's commit was rejected by the unique constraint.
C2_Witness ==
    \E r \in Reqs :
        /\ pc[r] = "close" /\ req[r].op = "create_user"
        /\ resp[r].detail = "IntegrityError"
        /\ Cardinality(UserRowsOf(req[r].tg_id)) = 1

\* C3: a step of create_user for a tg_id that already has a row leaves the
\* users table as it is, and every successful create_user answers with the
\* stored row of its tg_id, whose ref_link is the fixed base followed by tg_id.
C3_CreateUserIdempotent ==
    [][ \A r \in Reqs :
          /\ (Acted(r) /\ req[r].op = "create_user" /\ UserRowsOf(req[r].tg_id) # {})
             => users' = users
          /\ (pc'[r] = "close" /\ req'[r].op = "create_user" /\ resp'[r].status = Ok)
             => /\ resp'[r].body.ref_link =
                       "https://t.me/tma123_bot?startapp=" \o req'[r].tg_id
                /\ \E i \in 1..Len(users') :
                       /\ users'[i].tg_id = req'[r].tg_id
                       /\ resp'[r].body.tg_id = users'[i].tg_id
                       /\ resp'[r].body.username = users'[i].username
                       /\ resp'[r].body.ref_link = users'[i].ref_link
      ]_vars

\* C3 witness: a repeated create_user with another username got the row of
\* the first call back.
C3_Witness ==
    \E r \in Reqs :
        /\ Answered(r, "create_user") /\ resp[r].status = Ok
        /\ resp[r].body.username # req[r].username
        /\ Len(users) = 1

\* C4: a create_user request that met no storage fault ends with a User,
\* never with an error response.
C4_CreateUserNeverFails ==
    \A r \in Reqs : Answered(r, "create_user") => resp[r].status = Ok

\* C5: the duplicate check of create_referral(A,B), when no storage fault
\* hits it, ends the request with Conflict if a row with the ordered pair
\* (A,B) exists, and otherwise goes on to insert the row it has added; either
\* way it leaves the table as it is. Past the check the request never answers
\* Conflict, so Conflict is answered exactly when the pair exists at the
\* check; a row (B,A) plays no part.
C5_ConflictIffSamePair ==
    [][ \A r \in Reqs :
          /\ ( /\ pc[r] = "query" /\ req[r].op = "create_referral"
               /\ Acted(r)
               /\ ~(pc'[r] = "close" /\ resp'[r].detail = "OperationalError") )
             => /\ (pc'[r] = "close" /\ resp'[r].status = Conflict)
                     <=> (ReferralRowsOfPair(req[r].tg_id, req[r].friend_tg_id) # {})
                /\ (ReferralRowsOfPair(req[r].tg_id, req[r].friend_tg_id) = {})
                     => /\ pc'[r] = "commit"
                        /\ Len(pending'[r]) = 1
                        /\ pending'[r][1].user_tg_id = req[r].tg_id
                        /\ pending'[r][1].friend_tg_id = req[r].friend_tg_id
                /\ referrals' = referrals
          /\ ( /\ pc[r] \in {"commit", "refresh"} /\ req[r].op = "create_referral"
               /\ pc'[r] = "close" )
             => resp'[r].status # Conflict
          /\ (pc'[r] = "close" /\ req'[r].op = "create_referral"
                /\ resp'[r].status = Conflict)
             => /\ Acted(r) => referrals' = referrals
                /\ \E i \in 1..Len(referrals') :
                       /\ referrals'[i].user_tg_id = req'[r].tg_id
                       /\ referrals'[i].friend_tg_id = req'[r].friend_tg_id
      ]_vars

\* C5 witness: (A,B) and (B,A) are both stored and a repeat was refused.
C5_Witness ==
    /\ \E r \in Reqs : Answered(r, "create_referral") /\ resp[r].status = Conflict
    /\ \E a \in TgIds, b \in TgIds :
          /\ a # b
          /\ ReferralRowsOfPair(a, b) # {}
          /\ ReferralRowsOfPair(b, a) # {}

\* C6: every stored referral carries 100 points, and get_total_points(tg_id)
\* answers 100 times the number of rows whose user_tg_id is tg_id (0 for none).
C6_TotalPoints ==
    [][ /\ \A i \in 1..Len(referrals') : referrals'[i].points = 100
        /\ \A r \in Reqs :
              Answers(r, "get_total_points", "query")
              => /\ resp'[r].status = Ok
                 /\ resp'[r].body.total_points =
                        100 * Cardinality(ReferralRowsOf(req[r].tg_id))
      ]_vars

\* C6 witness: a total of 100 for a tg_id that is also the friend of a row of
\* another user.
C6_Witness ==
    \E r \in Reqs :
        /\ Answered(r, "get_total_points")
        /\ resp[r].body.total_points = 100
        /\ \E i \in 1..Len(referrals) :
              /\ referrals[i].friend_tg_id = req[r].tg_id
              /\ referrals[i].user_tg_id # req[r].tg_id

\* C7: get_user_friends(tg_id) answers with one User per friend_tg_id of the
\* referral rows of tg_id that it read, and with no other user.
C7_FriendsOfEveryReferral ==
    [][ \A r \in Reqs :
          Answers(r, "get_user_friends", "friends")
          => /\ resp'[r].status = Ok
             /\ {resp'[r].body[i].tg_id : i \in 1..Len(resp'[r].body)} = SeqRange(local[r])
             /\ \A i, j \in 1..Len(resp'[r].body) :
                   resp'[r].body[i].tg_id = resp'[r].body[j].tg_id => i = j
      ]_vars

\* C8: get_user and get_referral_link answer NotFound exactly when no users
\* row has the tg_id; get_referral_link otherwise answers the stored ref_link,
\* the one create_user answers with; no step of either changes a table.
C8_LookupNotFound ==
    [][ \A r \in Reqs :
          /\ \A op \in {"get_user", "get_referral_link"} :
                Answers(r, op, "query")
                => /\ resp'[r].status \in {NotFound, Ok}
                   /\ (resp'[r].status = NotFound) <=> (UserRowsOf(req[r].tg_id) = {})
          /\ (Answers(r, "get_referral_link", "query") /\ resp'[r].status = Ok)
             => /\ \E i \in UserRowsOf(req[r].tg_id) :
                       resp'[r].body.referral_link = users[i].ref_link
                /\ resp'[r].body.referral_link =
                       "https://t.me/tma123_bot?startapp=" \o req[r].tg_id
                /\ \A c \in Reqs :
                       (pc'[c] = "close" /\ req'[c].op = "create_user"
                          /\ resp'[c].status = Ok /\ req'[c].tg_id = req[r].tg_id)
                       => resp'[c].body.ref_link = resp'[r].body.referral_link
          /\ (Acted(r) /\ ( \/ req[r].op \in {"get_user", "get_referral_link"}
                            \/ req'[r].op \in {"get_user", "get_referral_link"} ))
             => users' = users /\ referrals' = referrals
      ]_vars

\* C8 witness: a referral link was served for a stored user while a get_user
\* for an unknown tg_id was answered NotFound.
C8_Witness ==
    \E r \in Reqs, n \in Reqs :
        /\ Answered(r, "get_referral_link") /\ resp[r].status = Ok
        /\ resp[r].body.referral_link = "https://t.me/tma123_bot?startapp=" \o req[r].tg_id
        /\ Answered(n, "get_user") /\ resp[n].status = NotFound

\* C9: a request holds an open session from its start to its end and none
\* after it; what a request added and did not commit exists only up to its
\* commit; a commit that fails and the end of a request leave the tables as
\* they are and nothing added behind; a table row appears only by the
\* successful commit of the request that added it; every opened session is
\* eventually closed.
C9_SessionScoped ==
    /\ [](\A r \in Reqs :
             /\ (pc[r] = "idle") <=> (session[r] = "closed")
             /\ pending[r] # <<>> => pc[r] = "commit")
    /\ [][ /\ \A r \in Reqs :
                /\ (pc[r] = "close" /\ Acted(r))
                   => /\ users' = users /\ referrals' = referrals
                      /\ pending'[r] = <<>>
                      /\ session'[r] = "closed"
                /\ (pc[r] = "commit" /\ pc'[r] = "close")
                   => /\ users' = users /\ referrals' = referrals
                      /\ pending'[r] = <<>>
                      /\ resp'[r].status = ServerError
           /\ (users' # users \/ referrals' # referrals)
              => \E r \in Reqs :
                    /\ pc[r] = "commit" /\ pc'[r] = "refresh"
                    /\ pending[r] # <<>> /\ pending'[r] = <<>>
         ]_vars
    /\ \A r \in Reqs : (session[r] = "open") ~> (session[r] = "closed")

\* C9 witness: a create_referral whose commit was rejected is at its end, its
\* session still open, and the row it had added is in no table.
C9_Witness ==
    \E r \in Reqs :
        /\ pc[r] = "close"
        /\ req[r].op = "create_referral"
        /\ resp[r].status = ServerError
        /\ resp[r].detail = "IntegrityError"
        /\ pending[r] = <<>>
        /\ ReferralRowsOfPair(req[r].tg_id, req[r].friend_tg_id) = {}
        /\ session[r] = "open"

\* C10: every referral row names, on both sides, the tg_id of a stored user.
C10_ReferentialIntegrity ==
    \A i \in 1..Len(referrals) :
        /\ UserRowsOf(referrals[i].user_tg_id) # {}
        /\ UserRowsOf(referrals[i].friend_tg_id) # {}
====
